---- MODULE Spec2Model ----
(***************************************************************************)
(* Model of src/text_loader.py: the sample loader (TextLoader), the two    *)
(* index-batch schedules (bucket_schedule, warmup_schedule) and the batch  *)
(* materializer (TextBatchGenerator).                                      *)
(*                                                                         *)
(* Strings are sequences of one-character strings.  Sample indices are     *)
(* 0-based as in the source; TLA+ sequences are 1-based, so row i of an    *)
(* array lives at position i+1.                                            *)
(***************************************************************************)
EXTENDS Integers, Sequences, FiniteSets, TLC

VARIABLES
    samples,      \* loader.samples: sequence of <<source, target>>
    batch_size,   \* bucket_schedule / warmup_schedule argument
    kwargs,       \* [shuffle, repeat, fuzzyness, sort] of the (regular) schedule
    gen,          \* the bucket_schedule generator: [pc, sample_indices, batch_numbers, pos]
    epochOut,     \* index batches gen yielded in its current epoch, in order
    out,          \* result of the latest next(): an index batch, or <<>>
    warmup_iterations, \* warmup_schedule argument
    wpc,          \* where warmup_schedule stands: "warmup", "regular" or "done"
    wgen,         \* the generator made by warmup_function (line 104)
    warm_i,       \* enumerate index i of the warmup loop (line 105)
    whist,        \* index batches yielded by the warmup loop (line 108)
    gen2,         \* a second, independent bucket_schedule generator
    epochOut2,    \* index batches gen2 yielded in its current epoch
    out2,         \* result of the latest next() of gen2
    seq_len,      \* seq_len of TextLoader / TextBatchGenerator
    lpc,          \* where TextLoader.__init__ stands: "loaded" or "done"
    use_dynamic_array_sizes, \* TextBatchGenerator option
    bpc,          \* "idle", or "made" once _make_batch has run
    batch,        \* the dict returned by _make_batch
    pulled,       \* every index batch gen has yielded since it was created, in order
    sent,         \* the sentence a call of TextBatchGenerator._spaces is given
    spaces        \* what that call returned, <<>> as long as it has not returned

schedVars == <<samples, batch_size, kwargs>>
genVars == <<gen, epochOut, out>>
warmVars == <<warmup_iterations, wpc, wgen, warm_i, whist>>
gen2Vars == <<gen2, epochOut2, out2>>
textVars == <<seq_len, lpc, use_dynamic_array_sizes, bpc, batch>>
histVars == <<pulled>>
spacesVars == <<sent, spaces>>

vars == <<schedVars, genVars, warmVars, gen2Vars, textVars, histVars, spacesVars>>

-----------------------------------------------------------------------------
(* Bounds of the model *)

MaxSamples == 3
MaxBatch == 2

(* program constants *)
ShiftBits == 14
DefaultFuzzyness == 3
WarmupFuzzyness == 1

-----------------------------------------------------------------------------
(* Helpers *)

Min(a, b) == IF a <= b THEN a ELSE b
Max(a, b) == IF a >= b THEN a ELSE b

\* a string of n characters
Str(n) == [i \in 1..n |-> "a"]

\* all sequences over S of length lo..hi
SeqsOf(S, lo, hi) == UNION {[1..n -> S] : n \in lo..hi}

\* the one-to-one maps of 1..n onto itself, for every array length of the model
Bijections ==
    [n \in 0..MaxSamples |->
        {p \in [1..n -> 1..n] : \A i, j \in 1..n : p[i] = p[j] => i = j}]

\* all orderings of the rows of a sequence
Orderings(arr) ==
    UNION {{[i \in 1..Len(a) |-> a[p[i]]] : p \in Bijections[Len(a)]} : a \in {arr}}

RECURSIVE Flatten(_)
Flatten(ss) == IF ss = <<>> THEN <<>> ELSE Head(ss) \o Flatten(Tail(ss))

-----------------------------------------------------------------------------
(* bucket_schedule, lines 35-81 *)

\* line 54: the order value of a sample
SortKey(s, fuzzyness) ==
    ((Len(s[1]) \div fuzzyness) * (2 ^ ShiftBits)) + (Len(s[2]) \div fuzzyness)

\* lines 50-55: rows (i, key) in loader order
SampleIndices(smpls, fuzzyness) ==
    [k \in 1..Len(smpls) |-> <<k - 1, SortKey(smpls[k], fuzzyness)>>]

\* insert row after every row whose key is <= its own (keeps ties in order)
RECURSIVE InsertStable(_, _)
InsertStable(sorted, row) ==
    IF sorted = <<>> THEN <<row>>
    ELSE IF Head(sorted)[2] <= row[2]
         THEN <<Head(sorted)>> \o InsertStable(Tail(sorted), row)
         ELSE <<row>> \o sorted

\* arr[arr[:, 1].argsort(kind='mergesort')]: stable sort of the rows by key
RECURSIVE MergeSort(_)
MergeSort(arr) ==
    IF arr = <<>> THEN <<>>
    ELSE InsertStable(MergeSort(SubSeq(arr, 1, Len(arr) - 1)), arr[Len(arr)])

\* frost.get_number_of_batches: ceil(num_samples / batch_size)
get_number_of_batches(bs, num_samples) == (num_samples + bs - 1) \div bs

\* the batch numbers 0 .. n-1 in visiting order before any permutation
BatchNumbers(bs, num_samples) ==
    [k \in 1..get_number_of_batches(bs, num_samples) |-> k - 1]

\* frost.get_start_end_indices: start and end of the slice of a batch number
get_start_end_indices(batch_number, bs, num_samples) ==
    <<batch_number * bs, Min((batch_number + 1) * bs, num_samples)>>

\* a slice that takes one row too many: sample_indices[start:end+1, 0]
SliceOneMore(arr, start, end) ==
    [k \in 1..(Min(end + 1, Len(arr)) - start) |-> arr[start + k][1]]

\* line 78: sample_indices[start:end, 0]
Slice(arr, start, end) ==
    [k \in 1..(Min(end, Len(arr)) - start) |-> arr[start + k][1]]

\* a sort that leaves rows of equal key in the reverse of their original order
SortedOrNotUnstable(arr, sort) ==
    IF sort THEN MergeSort([k \in 1..Len(arr) |-> arr[Len(arr) + 1 - k]]) ELSE arr

\* lines 57-59: the array before the first epoch
SortedOrNot(arr, sort) == IF sort THEN MergeSort(arr) ELSE arr

\* the array shuffled and re-sorted whether or not shuffle is set
EpochArraysAlways(arr, shuffle) == {MergeSort(a) : a \in Orderings(arr)}

\* a shuffle that moves the indices and leaves the keys where they were
EpochArraysSplitRows(arr, shuffle) ==
    IF shuffle
    THEN {MergeSort([k \in 1..Len(arr) |-> <<a[k][1], arr[k][2]>>]) : a \in Orderings(arr)}
    ELSE {arr}

\* the array shuffled but not sorted again
EpochArraysNoResort(arr, shuffle) ==
    IF shuffle THEN Orderings(arr) ELSE {arr}

\* lines 65-74: the arrays an epoch may start with
EpochArrays(arr, shuffle) ==
    IF shuffle THEN {MergeSort(a) : a \in Orderings(arr)} ELSE {arr}

\* the visiting order permuted whether or not shuffle is set
EpochBatchNumbersAlways(bn, shuffle) == Orderings(bn)

\* line 75: the visiting orders an epoch may use
EpochBatchNumbers(bn, shuffle) ==
    IF shuffle THEN Orderings(bn) ELSE {bn}

\* lines 76-78: the batch at visiting position pos (1-based) of the epoch
BatchAt(g, bs, pos) ==
    LET se == get_start_end_indices(g.batch_numbers[pos], bs, Len(g.sample_indices))
    IN Slice(g.sample_indices, se[1], se[2])

\* a loop that ends after one epoch whatever repeat says
EpochEndsAlways(repeat) == TRUE

\* lines 80-81
EpochEnds(repeat) == ~repeat

\* a generator that has not run yet
NewGen == [pc |-> "start", sample_indices |-> <<>>, batch_numbers |-> <<>>, pos |-> 0]

\* lines 50-62: the generator's state on entering the loop for the first time
Entered(smpls, bs, kw) ==
    [pc |-> "loop",
     sample_indices |-> SortedOrNot(SampleIndices(smpls, kw.fuzzyness), kw.sort),
     batch_numbers |-> BatchNumbers(bs, Len(smpls)),
     pos |-> 0]

\* an epoch that visits the batch numbers in the reverse of the order before
EpochStartsReversed(g, kw) ==
    {[pc |-> "yield", sample_indices |-> a, pos |-> 1,
      batch_numbers |-> [k \in 1..Len(b) |-> b[Len(b) + 1 - k]]] :
        a \in EpochArrays(g.sample_indices, kw.shuffle),
        b \in EpochBatchNumbers(g.batch_numbers, kw.shuffle)}

\* lines 64-78: the states in which an epoch may yield its first batch
EpochStarts(g, kw) ==
    {[pc |-> "yield", sample_indices |-> a, batch_numbers |-> b, pos |-> 1] :
        a \in EpochArrays(g.sample_indices, kw.shuffle),
        b \in EpochBatchNumbers(g.batch_numbers, kw.shuffle)}

\* one next() of a bucket_schedule generator: the possible <<state, batch>>;
\* batch <<>> stands for StopIteration
Resume(g, smpls, bs, kw) ==
    IF g.pc = "start" THEN
        UNION {{<<h, BatchAt(h, bs, 1)>> : h \in EpochStarts(e, kw)} :
                  e \in {Entered(smpls, bs, kw)}}
    ELSE IF g.pc = "yield" /\ g.pos < Len(g.batch_numbers) THEN
        {<<[g EXCEPT !.pos = g.pos + 1], BatchAt(g, bs, g.pos + 1)>>}
    ELSE IF g.pc = "yield" /\ ~EpochEnds(kw.repeat) THEN
        {<<h, BatchAt(h, bs, 1)>> : h \in EpochStarts(g, kw)}
    ELSE {<<[g EXCEPT !.pc = "done"], <<>> >>}

-----------------------------------------------------------------------------
(* Inputs *)

\* <<len(source), len(target)>> of the samples a loader may hold
SampleLengths == {<<3, 4>>, <<4, 3>>}

SamplePool == {<<Str(l[1]), Str(l[2])>> : l \in SampleLengths}

SampleLists == SeqsOf(SamplePool, 1, MaxSamples)

Fuzzynesses == {WarmupFuzzyness, DefaultFuzzyness}

Kwargs == [shuffle : BOOLEAN, repeat : BOOLEAN, fuzzyness : Fuzzynesses, sort : BOOLEAN]

-----------------------------------------------------------------------------
(* Specification of one bucket_schedule generator driven by next() *)

SchedInit ==
    /\ samples \in SampleLists
    /\ batch_size \in 1..MaxBatch
    /\ kwargs \in Kwargs
    /\ gen = NewGen
    /\ epochOut = <<>>
    /\ out = <<>>

\* warmup_schedule is not in use
NoWarmup ==
    /\ warmup_iterations = 0
    /\ wpc = "unused"
    /\ wgen = NewGen
    /\ warm_i = 0
    /\ whist = <<>>

\* there is no second generator
NoGen2 ==
    /\ gen2 = NewGen
    /\ epochOut2 = <<>>
    /\ out2 = <<>>

\* no loader is being built and no batch is being made
NoText ==
    /\ seq_len = 0
    /\ lpc = "unused"
    /\ use_dynamic_array_sizes = FALSE
    /\ bpc = "unused"
    /\ batch = << >>

\* the batches pulled are not recorded
NoPulls == pulled = <<>>

\* _spaces is not being called on its own
NoSentence ==
    /\ sent = <<>>
    /\ spaces = <<>>

Init == SchedInit /\ NoWarmup /\ NoGen2 /\ NoText /\ NoPulls /\ NoSentence

\* first next(): lines 50-78
FirstBatch ==
    /\ gen.pc = "start"
    /\ \E r \in Resume(gen, samples, batch_size, kwargs) :
         /\ gen' = r[1]
         /\ out' = r[2]
         /\ epochOut' = <<r[2]>>
    /\ UNCHANGED <<schedVars, warmVars, gen2Vars, textVars, histVars, spacesVars>>

\* next() inside an epoch: lines 76-78
NextBatch ==
    /\ gen.pc = "yield"
    /\ gen.pos < Len(gen.batch_numbers)
    /\ \E r \in Resume(gen, samples, batch_size, kwargs) :
         /\ gen' = r[1]
         /\ out' = r[2]
         /\ epochOut' = Append(epochOut, r[2])
    /\ UNCHANGED <<schedVars, warmVars, gen2Vars, textVars, histVars, spacesVars>>

\* next() after the last batch of an epoch, repeat set: lines 80, 64-78
Restart ==
    /\ gen.pc = "yield"
    /\ gen.pos = Len(gen.batch_numbers)
    /\ ~EpochEnds(kwargs.repeat)
    /\ \E r \in Resume(gen, samples, batch_size, kwargs) :
         /\ r[1].pc = "yield"
         /\ gen' = r[1]
         /\ out' = r[2]
         /\ epochOut' = <<r[2]>>
    /\ UNCHANGED <<schedVars, warmVars, gen2Vars, textVars, histVars, spacesVars>>

\* next() after the last batch of an epoch, repeat not set: lines 80-81
Exhaust ==
    /\ gen.pc = "yield"
    /\ gen.pos = Len(gen.batch_numbers)
    /\ EpochEnds(kwargs.repeat)
    /\ \E r \in Resume(gen, samples, batch_size, kwargs) :
         /\ r[1].pc = "done"
         /\ gen' = r[1]
         /\ out' = r[2]
         /\ epochOut' = epochOut
    /\ UNCHANGED <<schedVars, warmVars, gen2Vars, textVars, histVars, spacesVars>>

Next == FirstBatch \/ NextBatch \/ Restart \/ Exhaust

Spec == Init /\ [][Next]_vars

\* the consumer keeps calling next() at least until the end of the first epoch
FairSpec ==
    /\ Spec
    /\ WF_vars(FirstBatch) /\ WF_vars(NextBatch) /\ WF_vars(Exhaust)

-----------------------------------------------------------------------------
(* warmup_schedule, lines 83-113 *)

MaxWarmup == 3

\* line 99
warmup_kwargs ==
    [shuffle |-> FALSE, repeat |-> FALSE, fuzzyness |-> WarmupFuzzyness, sort |-> TRUE]

\* the regular generator made with the warmup settings
RegularKwargsWarmup(kw) == warmup_kwargs

\* line 111: the regular generator gets the caller's keyword arguments
RegularKwargs(kw) == kw

\* the regular loop going on with the generator the warmup loop left
RegularGeneratorResumed(warmup_generator) == warmup_generator

\* line 111: the regular loop runs a generator of its own, made anew
RegularGenerator(warmup_generator) == NewGen

\* a warmup loop that stops one iteration late
WarmupBreaksLate(i, iterations) == i = iterations + 1

\* line 106
WarmupBreaks(i, iterations) == i = iterations

\* epochOut after a next() of generator g (before the call) gave result r
EpochOutAfter(g, eo, r) ==
    IF r[2] = <<>> THEN eo
    ELSE IF g.pc = "start" \/ g.pos = Len(g.batch_numbers) THEN <<r[2]>>
    ELSE Append(eo, r[2])

WarmupInit ==
    /\ SchedInit
    /\ warmup_iterations \in 0..MaxWarmup
    /\ wpc = "warmup"
    /\ wgen = NewGen
    /\ warm_i = 0
    /\ whist = <<>>
    /\ NoGen2
    /\ NoText
    /\ NoPulls
    /\ NoSentence

\* next() in the warmup loop, lines 104-108: the warmup generator has a batch
\* and i has not reached warmup_iterations
WarmupBatch ==
    /\ wpc = "warmup"
    /\ \E r \in Resume(wgen, samples, batch_size, warmup_kwargs) :
         /\ r[2] # <<>>
         /\ ~WarmupBreaks(warm_i, warmup_iterations)
         /\ wgen' = r[1]
         /\ out' = r[2]
         /\ whist' = Append(whist, r[2])
         /\ warm_i' = warm_i + 1
    /\ UNCHANGED <<schedVars, gen, epochOut, warmup_iterations, wpc, gen2Vars, textVars, histVars, spacesVars>>

\* next() that leaves the warmup loop (it breaks, line 107, or the warmup
\* generator is exhausted) and yields the first batch of the regular
\* generator, lines 111-113
StartRegular ==
    /\ wpc = "warmup"
    /\ \E r \in Resume(wgen, samples, batch_size, warmup_kwargs) :
         /\ r[2] = <<>> \/ WarmupBreaks(warm_i, warmup_iterations)
         /\ wgen' = r[1]
         /\ \E q \in Resume(RegularGenerator(r[1]), samples, batch_size,
                            RegularKwargs(kwargs)) :
              /\ gen' = q[1]
              /\ out' = q[2]
              /\ epochOut' = EpochOutAfter(RegularGenerator(r[1]), <<>>, q)
              /\ wpc' = IF q[2] = <<>> THEN "done" ELSE "regular"
    /\ UNCHANGED <<schedVars, warmup_iterations, warm_i, whist, gen2Vars, textVars, histVars, spacesVars>>

\* next() in the regular loop, lines 112-113, inside an epoch of the
\* regular generator
RegularBatch ==
    /\ wpc = "regular"
    /\ gen.pos < Len(gen.batch_numbers)
    /\ \E q \in Resume(gen, samples, batch_size, RegularKwargs(kwargs)) :
         /\ q[2] # <<>>
         /\ gen' = q[1]
         /\ out' = q[2]
         /\ epochOut' = EpochOutAfter(gen, epochOut, q)
    /\ UNCHANGED <<schedVars, warmVars, gen2Vars, textVars, histVars, spacesVars>>

\* next() in the regular loop, lines 112-113, when the regular generator
\* starts another epoch
RegularRestart ==
    /\ wpc = "regular"
    /\ gen.pos = Len(gen.batch_numbers)
    /\ ~EpochEnds(RegularKwargs(kwargs).repeat)
    /\ \E q \in Resume(gen, samples, batch_size, RegularKwargs(kwargs)) :
         /\ q[2] # <<>>
         /\ gen' = q[1]
         /\ out' = q[2]
         /\ epochOut' = EpochOutAfter(gen, epochOut, q)
    /\ UNCHANGED <<schedVars, warmVars, gen2Vars, textVars, histVars, spacesVars>>

\* next() when the regular generator is exhausted: warmup_schedule returns
RegularExhausted ==
    /\ wpc = "regular"
    /\ gen.pos = Len(gen.batch_numbers)
    /\ EpochEnds(RegularKwargs(kwargs).repeat)
    /\ \E q \in Resume(gen, samples, batch_size, RegularKwargs(kwargs)) :
         /\ q[2] = <<>>
         /\ gen' = q[1]
         /\ out' = q[2]
         /\ epochOut' = epochOut
    /\ wpc' = "done"
    /\ UNCHANGED <<schedVars, warmup_iterations, wgen, warm_i, whist, gen2Vars, textVars, histVars, spacesVars>>

WarmupNext ==
    WarmupBatch \/ StartRegular \/ RegularBatch \/ RegularRestart \/ RegularExhausted

WarmupSpec == WarmupInit /\ [][WarmupNext]_vars

\* the consumer keeps calling next() at least until the end of the first
\* regular epoch
FairWarmupSpec ==
    /\ WarmupSpec
    /\ WF_vars(WarmupBatch) /\ WF_vars(StartRegular)
    /\ WF_vars(RegularBatch) /\ WF_vars(RegularExhausted)

-----------------------------------------------------------------------------
(* Two independent runs of bucket_schedule with shuffle=False over the same     *)
(* loader and arguments, each drawing from the random source on its own        *)

TwoRunsInit ==
    /\ SchedInit
    /\ ~kwargs.shuffle
    /\ NoWarmup
    /\ NoGen2
    /\ NoText
    /\ NoPulls
    /\ NoSentence

\* next() on both generators
NextBoth ==
    /\ gen.pc # "done" \/ gen2.pc # "done"
    /\ \E r \in Resume(gen, samples, batch_size, kwargs) :
         /\ gen' = r[1]
         /\ out' = r[2]
         /\ epochOut' = EpochOutAfter(gen, epochOut, r)
    /\ \E r \in Resume(gen2, samples, batch_size, kwargs) :
         /\ gen2' = r[1]
         /\ out2' = r[2]
         /\ epochOut2' = EpochOutAfter(gen2, epochOut2, r)
    /\ UNCHANGED <<schedVars, warmVars, textVars, histVars, spacesVars>>

TwoRunsSpec == TwoRunsInit /\ [][NextBoth]_vars

-----------------------------------------------------------------------------
(* TextLoader, lines 7-19 and 116-167 *)

MaxPairs == 2
MaxSeqLen == 4

\* characters that str.strip() removes
Whitespace == {" "}

\* x.strip()
RECURSIVE LStrip(_)
LStrip(x) == IF x # <<>> /\ Head(x) \in Whitespace THEN LStrip(Tail(x)) ELSE x

RECURSIVE RStrip(_)
RStrip(x) ==
    IF x # <<>> /\ x[Len(x)] \in Whitespace THEN RStrip(SubSeq(x, 1, Len(x) - 1)) ELSE x

Strip(x) == RStrip(LStrip(x))

\* x[:limit] of Python: a negative limit counts from the end
PySliceTo(x, limit) ==
    IF limit >= 0 THEN SubSeq(x, 1, Min(limit, Len(x)))
    ELSE SubSeq(x, 1, Max(Len(x) + limit, 0))

\* float('inf'), line 160
Infinity == [inf |-> TRUE, value |-> 0]

\* len(x) <= max_length-1
AtMostMaxLength(n, max_length) == max_length.inf \/ n <= max_length.value - 1

\* the elements of seq that satisfy Keep, in order
RECURSIVE SelectSamples(_, _, _)
SelectSamples(smpls, side, max_length) ==
    IF smpls = <<>> THEN <<>>
    ELSE LET s == Head(smpls)
             rest == SelectSamples(Tail(smpls), side, max_length)
         IN IF Len(s[side]) > 1 /\ AtMostMaxLength(Len(s[side]), max_length)
            THEN <<s>> \o rest ELSE rest

\* list(set(samples)): the distinct samples in any order
ListOfSet(smpls) ==
    LET S == {smpls[k] : k \in 1..Len(smpls)}
        n == Cardinality(S)
    IN {f \in [1..n -> S] : \A i, j \in 1..n : f[i] = f[j] => i = j}

\* lines 7-15: the lists _filter_samples may return
_filter_samples(smpls, max_length) ==
    ListOfSet(SelectSamples(SelectSamples(smpls, 1, max_length), 2, max_length))

\* a truncation that keeps one character too many
_truncate_samples_long(smpls, limit) ==
    [k \in 1..Len(smpls) |->
        <<PySliceTo(smpls[k][1], limit + 1), PySliceTo(smpls[k][2], limit + 1)>>]

\* lines 17-19
_truncate_samples(smpls, limit) ==
    [k \in 1..Len(smpls) |->
        <<PySliceTo(smpls[k][1], limit), PySliceTo(smpls[k][2], limit)>>]

\* line 156
StripSamples(smpls) ==
    [k \in 1..Len(smpls) |-> <<Strip(smpls[k][1]), Strip(smpls[k][2])>>]

\* lines 156-161: the sample lists _preprocess_data may leave in self.samples
_preprocess_data(smpls, sl) ==
    {_truncate_samples(f, sl - 1) : f \in _filter_samples(StripSamples(smpls), Infinity)}

\* lines of the input files
RawLines ==
    { << >>,
      <<" ", "a">>,
      <<" ", "a", "b", " ">>,
      <<"a", "b", "c">>,
      <<"a", "b", "d">>,
      <<"a", " ", "b", "c", "d">> }

\* line 146: the zipped lines of the source and target files
RawSamples == SeqsOf(RawLines \X RawLines, 1, MaxPairs)

\* TextLoader.__init__ after _load_data (line 131)
LoaderInit ==
    /\ samples \in RawSamples
    /\ seq_len \in 0..MaxSeqLen
    /\ lpc = "loaded"
    /\ batch_size = 0
    /\ kwargs = warmup_kwargs
    /\ gen = NewGen /\ epochOut = <<>> /\ out = <<>>
    /\ NoWarmup
    /\ NoGen2
    /\ use_dynamic_array_sizes = FALSE /\ bpc = "unused" /\ batch = << >>
    /\ NoPulls
    /\ NoSentence

\* line 132: self._preprocess_data()
Preprocess ==
    /\ lpc = "loaded"
    /\ samples' \in _preprocess_data(samples, seq_len)
    /\ lpc' = "done"
    /\ UNCHANGED <<batch_size, kwargs, genVars, warmVars, gen2Vars,
                   seq_len, use_dynamic_array_sizes, bpc, batch, histVars, spacesVars>>

LoaderNext == Preprocess

LoaderSpec == LoaderInit /\ [][LoaderNext]_vars

-----------------------------------------------------------------------------
(* TextBatchGenerator, lines 170-295, and _make_len_vec, lines 21-33 *)

\* line 204
add_eos_character == TRUE

\* default max_len of _make_len_vec, line 21
DefaultMaxLen == 100000

\* Alphabet: ids of the characters, of the EOS marker and of the SOS marker
CharIds == [c \in {"a", "b", "c", "d", " ", "h", "i", "t", "e", "r", "s", "l", "u"} |->
               CASE c = "a" -> 1 [] c = "b" -> 2 [] c = "c" -> 3 [] c = "d" -> 4
                 [] c = " " -> 5 [] c = "h" -> 8 [] c = "i" -> 9 [] c = "t" -> 10
                 [] c = "e" -> 11 [] c = "r" -> 12 [] c = "s" -> 13 [] c = "l" -> 14
                 [] OTHER -> 15]
eos_id == 6
sos_id == 7

\* Alphabet.encode: the ids of the characters followed by the id of the EOS marker
encode(text) == [k \in 1..Len(text) |-> CharIds[text[k]]] \o <<eos_id>>

\* the largest element of a non-empty set of numbers
MaxOf(S) == CHOOSE m \in S : \A n \in S : n <= m

\* lengths that leave the offset out
_make_len_vec_no_offset(sequences, offset, max_len) ==
    [k \in 1..Len(sequences) |-> Min(Len(sequences[k]), max_len)]

\* lines 21-33
_make_len_vec(sequences, offset, max_len) ==
    [k \in 1..Len(sequences) |-> Min(Len(sequences[k]) + offset, max_len)]

\* idx-1 for every space at 0-based position idx >= from-1 of sentence
RECURSIVE SpacesFrom(_, _)
SpacesFrom(sentence, from) ==
    IF from > Len(sentence) THEN <<>>
    ELSE (IF sentence[from] = " " THEN <<from - 2>> ELSE <<>>)
         \o SpacesFrom(sentence, from + 1)

\* the word boundaries of the sentence without the space that stands for EOS
_spaces_no_eos(sentence) ==
    Append(SpacesFrom(sentence, 1), Len(sentence) - 1)

\* lines 268-283
_spaces(sentence) ==
    LET augmented == IF add_eos_character THEN Append(sentence, " ") ELSE sentence
    IN Append(SpacesFrom(augmented, 1), Len(augmented) - 1)

\* a mask that leaves out the EOS position
_mask_no_eos(sentence) == [k \in 1..Len(sentence) |-> 1]

\* lines 285-290
_mask(sentence) ==
    [k \in 1..Len(sentence) |-> 1] \o (IF add_eos_character THEN <<1>> ELSE <<>>)

\* lines 254-256: the size of the array along its second axis
ArrayWidth(sequences, dynamic, max_len) ==
    IF dynamic \/ max_len = 0
    THEN MaxOf({Len(sequences[k]) : k \in 1..Len(sequences)})
    ELSE max_len

\* lines 258, 263-264: one row of zeros with processed_seq copied into it
ArrayRow(processed_seq, max_len) ==
    LET length == Min(max_len, Len(processed_seq))
    IN [k \in 1..max_len |-> IF k <= length THEN processed_seq[k] ELSE 0]

\* line 262: function(seq), function being one of encode, self._spaces, self._mask
Apply(function, seq) ==
    CASE function = "encode" -> encode(seq)
      [] function = "_spaces" -> _spaces(seq)
      [] function = "_mask" -> _mask(seq)

\* lines 238-266
_make_array(sequences, function, dynamic, max_len) ==
    LET width == ArrayWidth(sequences, dynamic, max_len)
    IN [k \in 1..Len(sequences) |-> ArrayRow(Apply(function, sequences[k]), width)]

\* array[:, :-1]
DropLastColumn(array) ==
    [k \in 1..Len(array) |-> SubSeq(array[k], 1, Max(Len(array[k]) - 1, 0))]

\* the SOS id written over column 0, nothing shifted
_add_sos_in_place(array) ==
    [k \in 1..Len(array) |-> <<sos_id>> \o Tail(array[k])]

\* lines 292-295
_add_sos(array) ==
    [k \in 1..Len(array) |-> <<sos_id>> \o DropLastColumn(array)[k]]

\* the offset True of lines 223-224 counts as 1
EosOffset == IF add_eos_character THEN 1 ELSE 0

\* lines 206-236, add_feature_dim not set
_make_batch(smpls, sl, dynamic) ==
    LET x == [k \in 1..Len(smpls) |-> smpls[k][1]]
        t == [k \in 1..Len(smpls) |-> smpls[k][2]]
        t_encoded == _make_array(t, "encode", dynamic, sl)
        spaces_x == [k \in 1..Len(x) |-> _spaces(x[k])]
    IN [x_encoded |-> _make_array(x, "encode", dynamic, sl),
        t_encoded |-> t_encoded,
        t_encoded_go |-> _add_sos(t_encoded),
        x_spaces |-> _make_array(x, "_spaces", dynamic, sl \div 4),
        t_mask |-> _make_array(t, "_mask", dynamic, sl),
        x_len |-> _make_len_vec(x, EosOffset, DefaultMaxLen),
        t_len |-> _make_len_vec(t, EosOffset, DefaultMaxLen),
        x_spaces_len |-> _make_len_vec(spaces_x, 0, sl \div 4)]

\* source and target sentences of the samples a batch may hold
BatchSources ==
    { <<"a", "b">>, <<"a", " ", "b">>, <<"a", "b", " ", "c", "d">>,
      <<"h", "i", " ", "t", "h", "e", "r", "e">> }
BatchTargets ==
    { <<"a", "b">>, <<"a", "b", "c">>, <<"a", " ", "c", "d">>,
      <<"s", "a", "l", "u", "t">> }

\* self.samples of the generator: the samples picked for one batch
BatchSamples == SeqsOf(BatchSources \X BatchTargets, 1, MaxBatch)

BatchInit ==
    /\ samples \in BatchSamples
    /\ seq_len \in 0..MaxSeqLen
    /\ use_dynamic_array_sizes \in BOOLEAN
    /\ bpc = "idle"
    /\ batch = << >>
    /\ lpc = "unused"
    /\ batch_size = 0
    /\ kwargs = warmup_kwargs
    /\ gen = NewGen /\ epochOut = <<>> /\ out = <<>>
    /\ NoWarmup
    /\ NoGen2
    /\ NoPulls
    /\ NoSentence

\* _make_batch() on the samples picked
MakeBatch ==
    /\ bpc = "idle"
    /\ batch' = _make_batch(samples, seq_len, use_dynamic_array_sizes)
    /\ bpc' = "made"
    /\ UNCHANGED <<schedVars, genVars, warmVars, gen2Vars,
                   seq_len, lpc, use_dynamic_array_sizes, histVars, spacesVars>>

BatchNext == MakeBatch

BatchSpec == BatchInit /\ [][BatchNext]_vars

-----------------------------------------------------------------------------
(* Properties of bucket_schedule *)

num_samples == Len(samples)

NumBatches == get_number_of_batches(batch_size, num_samples)

Indices(seq) == {seq[k] : k \in 1..Len(seq)}

NoRepeats(seq) == \A i, j \in 1..Len(seq) : seq[i] = seq[j] => i = j

\* the generator stands at the end of an epoch
EpochComplete == gen.pc \in {"yield", "done"} /\ gen.pos = Len(gen.batch_numbers)

\* C1: during one full pass with repeat=False no index is yielded twice, and
\* when the pass is over every index of 0..num_samples-1 was yielded exactly once
C1_Coverage ==
    ~kwargs.repeat =>
        /\ NoRepeats(Flatten(epochOut))
        /\ Indices(Flatten(epochOut)) \subseteq 0..(num_samples - 1)
        /\ gen.pc = "done" =>
              /\ Len(Flatten(epochOut)) = num_samples
              /\ Indices(Flatten(epochOut)) = 0..(num_samples - 1)

C1_Witness ==
    /\ gen.pc = "done" /\ ~kwargs.repeat /\ kwargs.shuffle /\ kwargs.sort
    /\ num_samples = 3 /\ batch_size = 2
    /\ epochOut = << <<1>>, <<0, 2>> >>

ShortBatches == {k \in 1..Len(epochOut) : Len(epochOut[k]) < batch_size}

\* C2 as stated: every batch has at most batch_size indices, at most one batch
\* of an epoch is shorter, and a shorter batch is the last one yielded in the
\* epoch, for every setting of shuffle
C2_ShortBatchYieldedLast ==
    /\ \A k \in 1..Len(epochOut) : Len(epochOut[k]) <= batch_size
    /\ Cardinality(ShortBatches) <= 1
    /\ \A k \in ShortBatches : k = NumBatches

\* C2 amended: every batch has at most batch_size indices, at most one batch
\* of an epoch is shorter, a shorter batch is the slice with the highest batch
\* number, and with shuffle=False it is the last batch yielded in the epoch
C2_BatchSizeBound ==
    /\ \A k \in 1..Len(epochOut) : Len(epochOut[k]) <= batch_size
    /\ Cardinality(ShortBatches) <= 1
    /\ \A k \in ShortBatches :
          /\ gen.batch_numbers[k] = NumBatches - 1
          /\ ~kwargs.shuffle => k = NumBatches

C2_Witness ==
    /\ EpochComplete /\ ~kwargs.shuffle
    /\ num_samples = 3 /\ batch_size = 2
    /\ ShortBatches = {2}

\* C6: a generator is exhausted only with repeat=False and then it has yielded
\* exactly ceil(num_samples/batch_size) batches (one batch of num_samples
\* indices when num_samples < batch_size); with repeat=False it does become
\* exhausted; with repeat=True every next() returns a batch
C6_Termination ==
    /\ [](gen.pc = "done" =>
            /\ ~kwargs.repeat
            /\ Len(epochOut) = NumBatches
            /\ num_samples < batch_size =>
                  Len(epochOut) = 1 /\ Len(epochOut[1]) = num_samples)
    /\ [](out = <<>> => gen.pc \in {"start", "done"})
    /\ (~kwargs.repeat => <>(gen.pc = "done"))
    /\ [][kwargs.repeat => gen'.pc = "yield" /\ out' # <<>>]_vars

C6_Witness ==
    /\ gen.pc = "done" /\ num_samples = 1 /\ batch_size = 2
    /\ epochOut = << <<0>> >>

-----------------------------------------------------------------------------
(* Properties of warmup_schedule *)

\* the number of batches the warmup loop yields
WarmupBatches == Min(warmup_iterations, NumBatches)

\* batch k of bucket_schedule(loader, batch_size, shuffle=False, repeat=False,
\* fuzzyness=1, sort=True)
WarmupReference(k) ==
    LET h == CHOOSE e \in EpochStarts(Entered(samples, batch_size, warmup_kwargs),
                                      warmup_kwargs) : TRUE
    IN BatchAt(h, batch_size, k)

\* the batches a new regular generator may yield first
FirstRegularBatches ==
    {r[2] : r \in Resume(NewGen, samples, batch_size, kwargs)}

\* C5: the warmup loop yields, in order, the first batches of bucket_schedule
\* run with shuffle=False, repeat=False, fuzzyness=1, sort=True, exactly
\* min(warmup_iterations, ceil(num_samples/batch_size)) of them, and the next
\* batch yielded is the first batch of a new regular generator
C5_WarmupPhase ==
    /\ [](/\ Len(whist) <= WarmupBatches
          /\ \A k \in 1..Len(whist) : whist[k] = WarmupReference(k)
          /\ wpc = "warmup" => gen = NewGen /\ (whist # <<>> => out = whist[Len(whist)])
          /\ wpc # "warmup" => Len(whist) = WarmupBatches)
    /\ [][wpc = "warmup" /\ wpc' # "warmup" =>
             /\ Len(whist) = WarmupBatches
             /\ wpc' = "regular"
             /\ out' \in FirstRegularBatches
             /\ epochOut' = <<out'>>]_vars

C5_Witness ==
    /\ wpc = "regular" /\ gen.pos = 1
    /\ warmup_iterations = 3 /\ num_samples = 3 /\ batch_size = 2
    /\ kwargs.shuffle /\ ~kwargs.sort /\ kwargs.fuzzyness = DefaultFuzzyness
    /\ whist = << <<0, 2>>, <<1>> >>
    /\ out = <<1>>

\* C7: warmup_schedule is exhausted only if the regular phase runs with
\* repeat=False, exactly when the regular generator is exhausted, and then the
\* warmup batches and one full regular epoch have been yielded; with
\* repeat=False it does become exhausted
C7_WarmupTermination ==
    /\ [](wpc = "done" =>
            /\ ~kwargs.repeat
            /\ Len(whist) = WarmupBatches
            /\ Len(epochOut) = NumBatches
            /\ Indices(Flatten(epochOut)) = 0..(num_samples - 1))
    /\ [](wpc = "done" <=> gen.pc = "done")
    /\ (~kwargs.repeat => <>(wpc = "done"))

C7_Witness ==
    /\ wpc = "done" /\ warmup_iterations = 1
    /\ num_samples = 3 /\ batch_size = 2
    /\ Len(whist) = 1 /\ Len(epochOut) = 2

-----------------------------------------------------------------------------
(* Properties of two independent runs *)

\* C8: with shuffle=False and sort=True two runs over the same loader,
\* batch_size and fuzzyness yield the same batches in the same order, whatever
\* either run would draw from the random source
C8_Determinism ==
    (~kwargs.shuffle /\ kwargs.sort) =>
        /\ out2 = out
        /\ epochOut2 = epochOut
        /\ gen2.pc = gen.pc

C8_Witness ==
    /\ ~kwargs.shuffle /\ kwargs.sort /\ kwargs.repeat
    /\ kwargs.fuzzyness = DefaultFuzzyness
    /\ num_samples = 3 /\ batch_size = 2
    /\ gen.pos = 2 /\ gen2.pos = 2
    /\ epochOut2 = << <<0, 1>>, <<2>> >>

-----------------------------------------------------------------------------
(* Properties of TextLoader *)

LengthsWithin(lo, hi) ==
    \A k \in 1..Len(samples) :
        /\ lo < Len(samples[k][1]) /\ Len(samples[k][1]) <= hi
        /\ lo < Len(samples[k][2]) /\ Len(samples[k][2]) <= hi

\* C3 as stated: after preprocessing every retained sample has
\* 1 < len(source) <= seq_len-1 and 1 < len(target) <= seq_len-1, for any seq_len
C3_LengthsAnySeqLen == lpc = "done" => LengthsWithin(1, seq_len - 1)

\* C3 amended: for any input lines and any seq_len >= 3, after preprocessing
\* every retained sample has 1 < len(source) <= seq_len-1 and
\* 1 < len(target) <= seq_len-1
C3_Lengths == (lpc = "done" /\ seq_len >= 3) => LengthsWithin(1, seq_len - 1)

C3_Witness ==
    /\ lpc = "done" /\ seq_len = 3
    /\ samples = << << <<"a", " ">>, <<"a", "b">> >> >>

\* C4: after preprocessing no two entries of the sample list are equal pairs
C4_NoDuplicates == lpc = "done" => NoRepeats(samples)

-----------------------------------------------------------------------------
(* Properties of TextBatchGenerator *)

\* the size of an array of the batch along its second axis
Width(array) == Len(array[1])

Sources == [k \in 1..Len(samples) |-> samples[k][1]]
Targets == [k \in 1..Len(samples) |-> samples[k][2]]

\* C9: with use_dynamic_array_sizes the second axis of each array is as long
\* as the longest processed sequence of the batch (word-boundary list, mask with
\* EOS, encoded ids), so no processed sequence is cut when copied
C9_DynamicWidth ==
    (bpc = "made" /\ use_dynamic_array_sizes) =>
        /\ Width(batch.t_mask) = MaxOf({Len(_mask(Targets[k])) : k \in 1..Len(samples)})
        /\ Width(batch.x_spaces) = MaxOf({Len(_spaces(Sources[k])) : k \in 1..Len(samples)})
        /\ Width(batch.x_encoded) = MaxOf({Len(encode(Sources[k])) : k \in 1..Len(samples)})
        /\ Width(batch.t_encoded) = MaxOf({Len(encode(Targets[k])) : k \in 1..Len(samples)})

\* a row of ones leading ones followed by zeros, width long
OnesThenZeros(ones, width) == [k \in 1..width |-> IF k <= ones THEN 1 ELSE 0]

\* C10: the t_mask row of a target of raw length L is min(L+1, max_len) ones
\* followed by zeros, max_len being the width of t_mask, in both sizing modes
C10_MaskRows ==
    bpc = "made" =>
        /\ Len(batch.t_mask) = Len(samples)
        /\ \A k \in 1..Len(samples) :
             /\ Len(batch.t_mask[k]) = Width(batch.t_mask)
             /\ batch.t_mask[k] =
                  OnesThenZeros(Min(Len(Targets[k]) + 1, Width(batch.t_mask)),
                                Width(batch.t_mask))

C10_Witness ==
    /\ bpc = "made" /\ use_dynamic_array_sizes
    /\ Len(samples) = 2
    /\ batch.t_mask = << <<1, 1, 1, 0>>, <<1, 1, 1, 1>> >>

\* C11: t_encoded_go has the shape of t_encoded, every row of it starts with
\* sos_id, and its columns 1.. are columns 0..width-2 of t_encoded (the last
\* column of t_encoded is dropped)
C11_ShiftCorrectness ==
    bpc = "made" =>
        /\ Len(batch.t_encoded_go) = Len(batch.t_encoded)
        /\ \A k \in 1..Len(batch.t_encoded) :
             /\ Len(batch.t_encoded_go[k]) = Len(batch.t_encoded[k])
             /\ batch.t_encoded_go[k][1] = sos_id
             /\ \A j \in 2..Len(batch.t_encoded[k]) :
                  batch.t_encoded_go[k][j] = batch.t_encoded[k][j - 1]

C11_Witness ==
    /\ bpc = "made" /\ ~use_dynamic_array_sizes /\ seq_len = 4
    /\ batch.t_encoded = << <<1, 2, 3, eos_id>> >>
    /\ batch.t_encoded_go = << <<sos_id, 1, 2, 3>> >>

\* C12: x_len and t_len hold len(source)+1 and len(target)+1 for every sample
\* of the batch (the EOS offset is 1 and the cap of 100000 is never reached),
\* and x_spaces_len holds the number of word-boundary entries of the source,
\* capped at seq_len // 4
C12_LengthVectors ==
    bpc = "made" =>
        /\ Len(batch.x_len) = Len(samples)
        /\ Len(batch.t_len) = Len(samples)
        /\ Len(batch.x_spaces_len) = Len(samples)
        /\ \A k \in 1..Len(samples) :
             /\ batch.x_len[k] = Len(Sources[k]) + 1
             /\ batch.t_len[k] = Len(Targets[k]) + 1
             /\ batch.x_spaces_len[k] = Min(Len(_spaces(Sources[k])), seq_len \div 4)

C12_Witness ==
    /\ bpc = "made" /\ seq_len = 4
    /\ samples = << << <<"h", "i", " ", "t", "h", "e", "r", "e">>,
                       <<"s", "a", "l", "u", "t">> >> >>
    /\ batch.x_len = <<9>>
    /\ batch.t_len = <<6>>
    /\ batch.x_spaces_len = <<1>>

-----------------------------------------------------------------------------
(* Further properties of bucket_schedule *)

\* the key of sample index i under the fuzzyness in use
KeyOf(i) == SortKey(samples[i + 1], kwargs.fuzzyness)

\* the keys of the rows of arr ascend
SortedByKey(arr) ==
    \A p, q \in 1..Len(arr) : p < q => arr[p][2] <= arr[q][2]

\* the indices in rows k*batch_size .. min((k+1)*batch_size, num_samples)-1 of
\* the generator's index array
ContiguousSlice(k) ==
    [j \in 1..(Min((k + 1) * batch_size, num_samples) - k * batch_size) |->
        gen.sample_indices[k * batch_size + j][1]]

\* the slice numbers that give the p-th batch of the epoch
SliceNumbers(p) == {k \in 0..(NumBatches - 1) : epochOut[p] = ContiguousSlice(k)}

\* every key of batch a is <= every key of batch b
KeysBelow(a, b) ==
    \A i \in 1..Len(a), j \in 1..Len(b) : KeyOf(a[i]) <= KeyOf(b[j])

\* C13: with shuffle=True the index array of an epoch is sorted by key, every
\* batch of the epoch is a slice [k*batch_size, min((k+1)*batch_size,
\* num_samples)) of it, no slice number is visited twice and a complete epoch
\* visits all of them, and the key ranges of two batches of an epoch never
\* interleave
C13_ContiguousSlices ==
    (kwargs.shuffle /\ gen.pc \in {"yield", "done"}) =>
        /\ SortedByKey(gen.sample_indices)
        /\ \A p \in 1..Len(epochOut) : SliceNumbers(p) # {}
        /\ \A p, q \in 1..Len(epochOut) :
             p # q =>
                /\ SliceNumbers(p) \cap SliceNumbers(q) = {}
                /\ KeysBelow(epochOut[p], epochOut[q]) \/ KeysBelow(epochOut[q], epochOut[p])
        /\ EpochComplete =>
             UNION {SliceNumbers(p) : p \in 1..Len(epochOut)} = 0..(NumBatches - 1)

C13_Witness ==
    /\ kwargs.shuffle /\ ~kwargs.sort /\ kwargs.repeat
    /\ kwargs.fuzzyness = WarmupFuzzyness
    /\ EpochComplete /\ batch_size = 2
    /\ samples = << <<Str(4), Str(3)>>, <<Str(3), Str(4)>>, <<Str(3), Str(4)>> >>
    /\ epochOut = << <<0>>, <<2, 1>> >>

\* C15: with sort=True and shuffle=False the indices of the batches of an epoch,
\* read in yield order, ascend by key, and indices of equal key ascend by index
C15_StableOrder ==
    (kwargs.sort /\ ~kwargs.shuffle) =>
        \A p, q \in 1..Len(Flatten(epochOut)) :
            p < q =>
               \/ KeyOf(Flatten(epochOut)[p]) < KeyOf(Flatten(epochOut)[q])
               \/ /\ KeyOf(Flatten(epochOut)[p]) = KeyOf(Flatten(epochOut)[q])
                  /\ Flatten(epochOut)[p] < Flatten(epochOut)[q]

C15_Witness ==
    /\ kwargs.sort /\ ~kwargs.shuffle /\ kwargs.fuzzyness = WarmupFuzzyness
    /\ EpochComplete /\ batch_size = 2
    /\ samples = << <<Str(4), Str(3)>>, <<Str(3), Str(4)>>, <<Str(3), Str(4)>> >>
    /\ epochOut = << <<1, 2>>, <<0>> >>

\* the rows (i, key(i)) of lines 50-55
OriginalRows == {<<i, KeyOf(i)>> : i \in 0..(num_samples - 1)}

\* C18: once the generator has started, and after any number of epochs, its
\* index array has num_samples rows and they are the rows (i, key(i)): every
\* index in one row, with its own key; the sample list of the loader never
\* changes
C18_Pairing ==
    /\ [](gen.pc # "start" =>
            /\ Len(gen.sample_indices) = num_samples
            /\ {gen.sample_indices[k] : k \in 1..Len(gen.sample_indices)} = OriginalRows)
    /\ [][samples' = samples]_vars

C18_Witness ==
    /\ kwargs.shuffle /\ kwargs.repeat /\ kwargs.fuzzyness = WarmupFuzzyness
    /\ samples = << <<Str(4), Str(3)>>, <<Str(3), Str(4)>>, <<Str(3), Str(4)>> >>
    /\ gen.pc = "yield"
    /\ gen.sample_indices = << <<2, KeyOf(2)>>, <<1, KeyOf(1)>>, <<0, KeyOf(0)>> >>

-----------------------------------------------------------------------------
(* One bucket_schedule generator with shuffle=False whose batches are all     *)
(* recorded, over several epochs                                              *)

MaxPulls == 6

HistoryInit ==
    /\ SchedInit
    /\ ~kwargs.shuffle
    /\ NoWarmup
    /\ NoGen2
    /\ NoText
    /\ pulled = <<>>
    /\ NoSentence

\* next(): lines 50-81; the batch it returns is recorded
Pull ==
    /\ gen.pc # "done"
    /\ Len(pulled) < MaxPulls
    /\ \E r \in Resume(gen, samples, batch_size, kwargs) :
         /\ gen' = r[1]
         /\ out' = r[2]
         /\ epochOut' = EpochOutAfter(gen, epochOut, r)
         /\ pulled' = IF r[2] = <<>> THEN pulled ELSE Append(pulled, r[2])
    /\ UNCHANGED <<schedVars, warmVars, gen2Vars, textVars, spacesVars>>

HistoryNext == Pull

HistorySpec == HistoryInit /\ [][HistoryNext]_vars

\* C14: with repeat=True and shuffle=False the batch of pull p is the batch of
\* pull p + ceil(num_samples/batch_size), for every p
C14_Periodic ==
    (kwargs.repeat /\ ~kwargs.shuffle) =>
        \A p \in 1..(Len(pulled) - NumBatches) : pulled[p + NumBatches] = pulled[p]

C14_Witness ==
    /\ kwargs.repeat /\ ~kwargs.shuffle /\ ~kwargs.sort
    /\ num_samples = 3 /\ batch_size = 2
    /\ pulled = << <<0, 1>>, <<2>>, <<0, 1>>, <<2>>, <<0, 1>>, <<2>> >>

-----------------------------------------------------------------------------
(* bucket_schedule over a loader whose samples may have very long targets     *)

\* lengths of the sources and of the targets of such a loader
KeySourceLengths == {2, 3}
KeyTargetLengths == {3, (2 ^ ShiftBits) + 3}

KeySamples ==
    {<<Str(x), Str(t)>> : x \in KeySourceLengths, t \in KeyTargetLengths}

KeyInit ==
    /\ samples \in SeqsOf(KeySamples, 2, 2)
    /\ batch_size \in 1..MaxBatch
    /\ kwargs \in Kwargs
    /\ gen = NewGen
    /\ epochOut = <<>>
    /\ out = <<>>
    /\ NoWarmup
    /\ NoGen2
    /\ NoText
    /\ NoPulls
    /\ NoSentence

\* the first next() builds the rows (i, key) and yields the first batch
KeyNext == FirstBatch

KeySpec == KeyInit /\ [][KeyNext]_vars

\* C16: in the rows (i, key) the generator works with, a sample whose
\* len(source) // fuzzyness is smaller has the smaller key, whatever the target
\* lengths are
C16_KeyPriority ==
    gen.pc = "yield" =>
        \A a, b \in 1..Len(gen.sample_indices) :
            (Len(samples[gen.sample_indices[a][1] + 1][1]) \div kwargs.fuzzyness
               < Len(samples[gen.sample_indices[b][1] + 1][1]) \div kwargs.fuzzyness)
            => gen.sample_indices[a][2] < gen.sample_indices[b][2]

-----------------------------------------------------------------------------
(* TextBatchGenerator._spaces called on one source sentence *)

MaxSentence == 7

\* source sentences as a loader leaves them: stripped on the left, and cut on
\* the right, where a space may remain
Sentences ==
    {s \in SeqsOf({"a", " "}, 0, MaxSentence) : s = <<>> \/ s[1] # " "}

SpacesInit ==
    /\ sent \in Sentences
    /\ spaces = <<>>
    /\ samples = <<>>
    /\ batch_size = 0
    /\ kwargs = warmup_kwargs
    /\ gen = NewGen /\ epochOut = <<>> /\ out = <<>>
    /\ NoWarmup
    /\ NoGen2
    /\ NoText
    /\ NoPulls

\* self._spaces(sentence), lines 268-283
Spaces ==
    /\ spaces = <<>>
    /\ spaces' = _spaces(sent)
    /\ UNCHANGED <<sent, schedVars, genVars, warmVars, gen2Vars, textVars, histVars>>

SpacesNext == Spaces

SpacesSpec == SpacesInit /\ [][SpacesNext]_vars

\* the 0-based positions of the spaces of s followed by a trailing space
SpacePositions(s) ==
    {idx \in 0..Len(s) : Append(s, " ")[idx + 1] = " "}

\* C17: _spaces(s) is ascending; its entries but the last are idx-1 for every
\* space at position idx of s followed by a trailing space; its last entry is
\* len(s), the last position of the augmented sentence and the position of the
\* EOS marker; the sentence passed in is left as it was
C17_WordBoundaries ==
    /\ [](spaces # <<>> =>
            /\ Len(spaces) = Cardinality(SpacePositions(sent)) + 1
            /\ {spaces[k] : k \in 1..(Len(spaces) - 1)}
                 = {idx - 1 : idx \in SpacePositions(sent)}
            /\ \A k \in 1..(Len(spaces) - 1) : spaces[k] < spaces[k + 1]
            /\ spaces[Len(spaces)] = Len(sent)
            /\ encode(sent)[Len(sent) + 1] = eos_id)
    /\ [][sent' = sent]_vars

C17_Witness ==
    /\ sent = <<"a", " ", "a", "a">>
    /\ spaces = <<0, 3, 4>>

-----------------------------------------------------------------------------
(* Further properties of TextBatchGenerator *)

\* the sentences of the batch are as a loader built with the same seq_len
\* leaves them
FitsSeqLen ==
    \A k \in 1..Len(samples) :
        Len(Sources[k]) <= seq_len - 1 /\ Len(Targets[k]) <= seq_len - 1

\* the number of 1s in a row
CountOnes(row) == Cardinality({j \in 1..Len(row) : row[j] = 1})

\* C19: in a batch whose sentences have at most seq_len-1 characters, in fixed
\* and in dynamic mode, x_len[i] is at most the width of x_encoded, t_len[i] is
\* at most the width of t_encoded and equals the number of 1s in row i of
\* t_mask, and x_spaces_len[i] is at most the width of x_spaces
C19_LengthsFit ==
    (bpc = "made" /\ FitsSeqLen) =>
        \A k \in 1..Len(samples) :
            /\ batch.x_len[k] <= Width(batch.x_encoded)
            /\ batch.t_len[k] <= Width(batch.t_encoded)
            /\ batch.t_len[k] = CountOnes(batch.t_mask[k])
            /\ batch.x_spaces_len[k] <= Width(batch.x_spaces)

-----------------------------------------------------------------------------
(* Further properties of warmup_schedule *)

\* what one next() of a bucket_schedule generator in state g, run with the
\* caller's keyword arguments, may leave in gen, out and epochOut
Continuations(g, eo) ==
    {<<r[1], r[2], EpochOutAfter(g, eo, r)>> :
        r \in Resume(g, samples, batch_size, kwargs)}

\* C20: the first batch after the warmup phase is what the first next() of a
\* new bucket_schedule(loader, batch_size, **kwargs) generator returns, and
\* every later one is what the next next() of that generator returns; the
\* regular phase does not go on where the warmup stopped: each regular epoch
\* yields no index twice and, when complete, every index once, those the
\* warmup presented included
C20_RegularFresh ==
    /\ [][(wpc = "warmup" /\ wpc' # "warmup") =>
             <<gen', out', epochOut'>> \in Continuations(NewGen, <<>>)]_vars
    /\ [][wpc = "regular" =>
             <<gen', out', epochOut'>> \in Continuations(gen, epochOut)]_vars
    /\ [](wpc \in {"regular", "done"} =>
            /\ NoRepeats(Flatten(epochOut))
            /\ EpochComplete =>
                 /\ Indices(Flatten(epochOut)) = 0..(num_samples - 1)
                 /\ Indices(Flatten(whist)) \subseteq Indices(Flatten(epochOut)))

C20_Witness ==
    /\ wpc = "regular" /\ ~kwargs.shuffle /\ ~kwargs.sort
    /\ warmup_iterations = 1 /\ batch_size = 2
    /\ whist = << <<0, 1>> >>
    /\ epochOut = << <<0, 1>>, <<2>> >>

====
